---- MODULE Spec2Model ----
(***************************************************************************)
(* State-machine model of the account backend: the user directory, the     *)
(* password-reset ledger and the JWT login/logout views.                   *)
(*                                                                         *)
(* Every handler is a process that runs one database statement per step,   *)
(* because the views run in autocommit mode: only destroy is wrapped in    *)
(* transaction.atomic.  Two request slots interleave their statements.     *)
(***************************************************************************)
EXTENDS Integers, Sequences, FiniteSets, TLC

(* ------------------------------ bounds --------------------------------- *)
MaxUsers  == 2          \* user ids ever allocated
MaxCodes  == 2          \* PasswordResetCode rows ever inserted
MaxTokens == 2          \* refresh tokens ever issued
MaxTime   == 10         \* the clock stops advancing here (minutes)
MaxTxns   == 3          \* transactions on one upstream page
MaxLinks  == 2          \* links the upstream lists
MaxAccounts == 2        \* accounts the upstream lists for one link
NumCredentials == 2     \* entries of TEST_CREDENTIALS

Procs       == {1, 2}                       \* concurrent request slots
Emails      == {"a@x.co", "b@x.co"}
Passwords   == {"pw1", "pw2"}
CodeStrings == {"AAAA0001", "AAAA0002"}     \* stand-ins for the 36^8 codes
Names       == {<<"Luis", "Gil">>}
TickSteps   == {5, 10}                      \* minutes the clock may jump

\* request bodies of reset_password: <<email, code, new_password,
\* confirm_password>>, "" for a field that is absent or empty
ResetBodies ==
    {<<e, k, n, n>> : e \in Emails, k \in CodeStrings, n \in Passwords}
    \cup {<<e, k, "pw1", "pw2">> : e \in Emails, k \in CodeStrings}
    \cup {<<"", "AAAA0001", "pw1", "pw1">>, <<"a@x.co", "", "pw1", "pw1">>,
          <<"a@x.co", "AAAA0001", "", "pw1">>,
          <<"a@x.co", "AAAA0001", "pw1", "">>}

\* request bodies of create and of login: <<email, password>>
Credentials ==
    (Emails \X Passwords) \cup {<<"", "pw1">>, <<"a@x.co", "">>}

(* -------------------------- program constants -------------------------- *)
CodeTTLMinutes == 10

(* ------------------------------- state --------------------------------- *)
VARIABLES
    users,      \* table users: set of rows
    nextId,     \* next primary key handed out for a user row
    codes,      \* table password_reset_codes: sequence of rows, insert order
    now,        \* timezone.now(), in minutes
    tokens,     \* refresh tokens issued so far: sequence of [user]
    blacklist,  \* set of indices of tokens that are on the denylist
    outbox,     \* mails handed to send_mail: set of [to, rc]
    proc,       \* per request slot: the handler in flight and its locals
    ev,         \* the statement executed last and the response, if any
    belvo       \* the banking adapter: the request in flight and its locals

vars == <<users, nextId, codes, now, tokens, blacklist, outbox, proc, ev,
          belvo>>

(* ------------------------- passwords and hashing ----------------------- *)
\* django.contrib.auth.hashers: a stored password is "<algorithm>$<digest>".
\* The digest is modelled by the raw password it was derived from.
make_password(raw) == <<"pbkdf2_sha256", raw>>

check_password(raw, encoded) ==
    /\ encoded[1] = "pbkdf2_sha256"
    /\ encoded[2] = raw

\* a password column holding the text the client sent, with no algorithm
ClearText(raw) == <<"", raw>>

\* variant: the attribute is assigned the raw text (user.password = raw)
set_password_raw(u, raw) == [u EXCEPT !.password = ClearText(raw)]

\* AbstractBaseUser.set_password
set_password(u, raw) == [u EXCEPT !.password = make_password(raw)]

NoPassword == <<"!", "">>

NoUser == [id |-> 0, email |-> "", password |-> NoPassword,
           is_active |-> FALSE, first_name |-> "", last_name |-> ""]

\* str(user.id) as it appears in the URL of DELETE users/{pk}
IdStr == <<"1", "2", "3", "4">>
PkStrings == {IdStr[i] : i \in 1..(MaxUsers + 1)}

(* ----------------------------- users table ----------------------------- *)
\* User.objects.get(email=...): the rows it can return (none: DoesNotExist)
UsersByEmail(us, e) == {u \in us : u.email = e}

UsersById(us, i) == {u \in us : u.id = i}

\* variant: the lookup never raises DoesNotExist
DoesNotExist_never(us, e) == FALSE

\* User.DoesNotExist raised by User.objects.get(email=...)
DoesNotExist(us, e) == UsersByEmail(us, e) = {}

\* variant: the column is not declared unique
IntegrityError_unchecked(us, u) == FALSE

\* unique=True on email: writing row u would collide with another row
IntegrityError(us, u) == \E x \in us : x.id /= u.id /\ x.email = u.email

\* Model.save() of a loaded instance: UPDATE by primary key, and INSERT when
\* the UPDATE matched no row.
SaveUser(us, u) == {x \in us : x.id /= u.id} \cup {u}

(* ------------------------ password_reset_codes ------------------------- *)
\* PasswordResetCode.save on a new row
NewCode(e, k, t) ==
    [email |-> e, code |-> k, is_used |-> FALSE,
     created_at |-> t, expires_at |-> t + CodeTTLMinutes,
     consumed |-> FALSE]

\* variant: expires_at >= now, a code still valid at its expiry instant
is_valid_inclusive(c, t) == ~c.is_used /\ c.expires_at >= t

\* PasswordResetCode.is_valid
is_valid(c, t) == ~c.is_used /\ c.expires_at > t

\* variant: the filter leaves the email out
Matching_any_email(cs, e, k) ==
    {r \in DOMAIN cs : cs[r].code = k /\ ~cs[r].is_used}

\* filter(email=, code=, is_used=False)
Matching(cs, e, k) ==
    {r \in DOMAIN cs : cs[r].email = e /\ cs[r].code = k /\ ~cs[r].is_used}

\* order_by('-created_at').first(): the rows the database may return first
\* (rows with equal created_at come in any order)
Newest(cs, S) == {r \in S : \A q \in S : cs[q].created_at <= cs[r].created_at}

\* filter(email=, is_used=False).update(is_used=True)
InvalidateUnused(cs, e) ==
    [r \in DOMAIN cs |->
        IF cs[r].email = e /\ ~cs[r].is_used
        THEN [cs[r] EXCEPT !.is_used = TRUE] ELSE cs[r]]

\* variant: the flag is set in memory and never saved
MarkUsed_unsaved(cs, r) == cs

\* reset_code.is_used = True; reset_code.save()
MarkUsed(cs, r) == [cs EXCEPT ![r].is_used = TRUE]

(* ------------------------------ processes ------------------------------ *)
Idle == [pc |-> "idle", email |-> "", code |-> "", pw |-> "", pw2 |-> "",
         rc |-> 0, usr |-> NoUser, old |-> NoPassword, pk |-> ""]

NoBody == [id |-> 0, email |-> "", first_name |-> "", last_name |-> ""]

NoEv == [p |-> 0, op |-> "", stmt |-> "", status |-> 0, email |-> "",
         code |-> "", pw |-> "", pw2 |-> "", rc |-> 0, uid |-> 0,
         old |-> NoPassword, pk |-> "", tok |-> 0, body |-> NoBody]

\* a slot takes a new request, or runs its next statement, once the
\* response produced last has been returned
IsIdle(p) == ev = NoEv /\ proc[p].pc = "idle"

At(p, pc) == ev = NoEv /\ proc[p].pc = pc

InFlight(pcs) == Cardinality({q \in Procs : proc[q].pc \in pcs})

(* --------------------------- banking adapter --------------------------- *)
\* a query parameter: None when absent, "" when empty
None == "None"
ParamValues == {None, "", "v"}
ParamNames == {"link_id", "account_id", "date_from", "date_to"}
NoQuery == [k \in ParamNames |-> None]

\* what one outbound call can come back with: a well-formed answer, an HTTP
\* error status (raise_for_status), no answer at all, or a success status
\* whose JSON lacks a field the handler reads (KeyError)
Outcomes == {"ok", "HTTPError", "ConnectionError", "KeyError"}

\* the subclasses of requests.exceptions.RequestException among them
RequestException == {"HTTPError", "ConnectionError"}

Amounts == {20, 30, 100}
TxnTypes == {"INFLOW", "OUTFLOW", "UNKNOWN"}

\* the upstream pages data['results']: entry i carries id i and a field the
\* reshaping drops
Pages ==
    UNION {{[i \in 1..n |-> [id |-> i, amount |-> f[i][1], type |-> f[i][2],
                             internal |-> "x"]]
                : f \in [1..n -> Amounts \X TxnTypes]} : n \in 0..MaxTxns}

\* the links the upstream lists: entry i carries id i; status "" stands for
\* an entry without a status field
LinkStatus == {"valid", "invalid", ""}
LinkLists ==
    UNION {{[i \in 1..n |-> [id |-> i, status |-> f[i]]]
                : f \in [1..n -> LinkStatus]} : n \in 0..MaxLinks}

\* TEST_CREDENTIALS, by position
TEST_CREDENTIALS == [i \in 1..NumCredentials |-> [id |-> i, status |-> "valid"]]

NoKpi == [income |-> 0, expenses |-> 0, balance |-> 0]

BelvoIdle ==
    [pc |-> "idle", op |-> "", status |-> 0, calls |-> 0, query |-> NoQuery,
     items |-> <<>>, seen |-> 0, done |-> <<>>, total |-> 0,
     page |-> <<>>, kpi |-> NoKpi, out |-> <<>>]

(* ------------------------------- Init ---------------------------------- *)
\* The store as deployed: no codes, no tokens, and either no account or one
\* account created outside the API (createsuperuser / admin), which may have
\* been deactivated there.
SeedUsers ==
    {{}} \cup
    {{[id |-> 1, email |-> "a@x.co", password |-> make_password("pw1"),
       is_active |-> act, first_name |-> "Ana", last_name |-> "Paz"]}
        : act \in BOOLEAN}

Init ==
    /\ users \in SeedUsers
    /\ nextId = IF users = {} THEN 1 ELSE 2
    /\ codes = <<>>
    /\ now = 0
    /\ tokens = <<>>
    /\ blacklist = {}
    /\ outbox = {}
    /\ proc = [p \in Procs |-> Idle]
    /\ ev = NoEv
    /\ belvo = BelvoIdle

(* -------------------------------- clock -------------------------------- *)
Tick ==
    /\ ev = NoEv
    /\ \E d \in TickSteps :
        /\ now + d <= MaxTime
        /\ now' = now + d
    /\ UNCHANGED <<belvo, users, nextId, codes, tokens, blacklist, outbox, proc, ev>>

\* the response of the handler that just finished goes back to its client
respond ==
    /\ ev /= NoEv
    /\ ev' = NoEv
    /\ UNCHANGED <<belvo, users, nextId, codes, now, tokens, blacklist, outbox, proc>>

Event(p, op, stmt, status) ==
    [NoEv EXCEPT !.p = p, !.op = op, !.stmt = stmt, !.status = status]

(* --------------------- UserViewSet.request_code ------------------------ *)
\* lines 160-175: read the email, look the user up
request_code_get_user(p) ==
    /\ IsIdle(p)
    /\ \E email \in Emails \cup {""} :
        LET e == [Event(p, "request_code", "rc_get_user", 0)
                    EXCEPT !.email = email] IN
        IF email = ""
        THEN /\ proc' = proc
             /\ ev' = [e EXCEPT !.status = 400]
        ELSE IF DoesNotExist(users, email)
        THEN /\ proc' = proc
             /\ ev' = [e EXCEPT !.status = 404]
        ELSE /\ Len(codes) + InFlight({"rc_invalidate", "rc_create"}) < MaxCodes
             /\ proc' = [proc EXCEPT ![p] =
                            [Idle EXCEPT !.pc = "rc_invalidate", !.email = email]]
             /\ ev' = NoEv
    /\ UNCHANGED <<belvo, users, nextId, codes, now, tokens, blacklist, outbox>>

\* lines 178-181: mark every unused code of the email used
request_code_invalidate(p) ==
    /\ At(p, "rc_invalidate")
    /\ codes' = InvalidateUnused(codes, proc[p].email)
    /\ proc' = [proc EXCEPT ![p].pc = "rc_create"]
    /\ ev' = NoEv
    /\ UNCHANGED <<belvo, users, nextId, now, tokens, blacklist, outbox>>

\* line 184: insert the new code (random.choices draws any 8 characters)
request_code_create(p) ==
    /\ At(p, "rc_create")
    /\ \E k \in CodeStrings :
        /\ codes' = Append(codes, NewCode(proc[p].email, k, now))
        /\ proc' = [proc EXCEPT ![p].pc = "rc_send", ![p].code = k,
                                ![p].rc = Len(codes) + 1]
        /\ ev' = NoEv
    /\ UNCHANGED <<belvo, users, nextId, now, tokens, blacklist, outbox>>

\* variant: send_mail is called outside the try block, its exception
\* leaves the handler
request_code_status_unhandled(delivered) == IF delivered THEN 200 ELSE 500

\* lines 195-203: the response after send_mail returned, and the one of the
\* except Exception clause after it raised
request_code_status(delivered) == IF delivered THEN 200 ELSE 400

\* variant: the except clause withdraws the code that could not be mailed
codes_after_send_withdrawn(cs, r, delivered) ==
    IF delivered THEN cs ELSE [cs EXCEPT ![r].is_used = TRUE]

\* lines 187-203: neither the return after send_mail nor the except clause
\* writes to password_reset_codes, and no transaction is rolled back
codes_after_send(cs, r, delivered) == cs

\* lines 187-203: send_mail(fail_silently=False); a failure raises inside
\* the try block and is answered by the except Exception clause
request_code_send_mail(p) ==
    /\ At(p, "rc_send")
    /\ \E delivered \in BOOLEAN :
        LET e == [Event(p, "request_code", "rc_send", 0)
                    EXCEPT !.email = proc[p].email, !.code = proc[p].code,
                           !.rc = proc[p].rc] IN
        /\ outbox' = IF delivered
                      THEN outbox \cup {[to |-> proc[p].email, rc |-> proc[p].rc]}
                      ELSE outbox
        /\ codes' = codes_after_send(codes, proc[p].rc, delivered)
        /\ ev' = [e EXCEPT !.status = request_code_status(delivered)]
    /\ proc' = [proc EXCEPT ![p] = Idle]
    /\ UNCHANGED <<belvo, users, nextId, now, tokens, blacklist>>

(* --------------------- UserViewSet.reset_password ---------------------- *)
\* lines 259-263: the rows .first() may return for (email, code)
FirstMatch(cs, e, k) == Newest(cs, Matching(cs, e, k))

\* variant: the confirmation is not compared
passwords_match_unchecked(new_password, confirm_password) == TRUE

\* line 253
passwords_match(new_password, confirm_password) ==
    new_password = confirm_password

\* variant: the except Exception clause comes first
reset_password_except_generic(exc) == 400

\* lines 282-291: the except clauses of reset_password
reset_password_except(exc) == IF exc = "DoesNotExist" THEN 404 ELSE 400

\* lines 242-269: validate the body, fetch the code row, check is_valid
reset_password_query(p) ==
    /\ IsIdle(p)
    /\ \E body \in ResetBodies :
        LET email == body[1]
            code == body[2]
            new_password == body[3]
            confirm_password == body[4]
            e == [Event(p, "reset_password", "rp_query", 0)
                    EXCEPT !.email = email, !.code = code,
                           !.pw = new_password, !.pw2 = confirm_password]
            reject == /\ proc' = proc
                      /\ ev' = [e EXCEPT !.status = 400]
        IN
        IF "" \in {email, code, new_password, confirm_password} THEN reject
        ELSE IF ~passwords_match(new_password, confirm_password) THEN reject
        ELSE IF FirstMatch(codes, email, code) = {} THEN reject
        ELSE \E r \in FirstMatch(codes, email, code) :
                IF ~is_valid(codes[r], now) THEN reject
                ELSE /\ proc' = [proc EXCEPT ![p] =
                                   [Idle EXCEPT !.pc = "rp_get_user",
                                                !.email = email, !.code = code,
                                                !.pw = new_password,
                                                !.pw2 = confirm_password,
                                                !.rc = r]]
                     /\ ev' = NoEv
    /\ UNCHANGED <<belvo, users, nextId, codes, now, tokens, blacklist, outbox>>

\* lines 271-272 and 282-286: User.objects.get, then set_password in memory
reset_password_get_user(p) ==
    /\ At(p, "rp_get_user")
    /\ LET e == [Event(p, "reset_password", "rp_get_user", 0)
                    EXCEPT !.email = proc[p].email, !.code = proc[p].code,
                           !.pw = proc[p].pw, !.rc = proc[p].rc] IN
       IF DoesNotExist(users, proc[p].email)
       THEN /\ proc' = [proc EXCEPT ![p] = Idle]
            /\ ev' = [e EXCEPT !.status = reset_password_except("DoesNotExist")]
       ELSE \E u \in UsersByEmail(users, proc[p].email) :
            /\ proc' = [proc EXCEPT ![p].pc = "rp_save_user",
                                    ![p].usr = set_password(u, proc[p].pw),
                                    ![p].old = u.password]
            /\ ev' = NoEv
    /\ UNCHANGED <<belvo, users, nextId, codes, now, tokens, blacklist, outbox>>

\* line 273 (and 287-291 when the write violates the unique email)
reset_password_save_user(p) ==
    /\ At(p, "rp_save_user")
    /\ LET e == [Event(p, "reset_password", "rp_save_user", 0)
                    EXCEPT !.email = proc[p].email, !.code = proc[p].code,
                           !.pw = proc[p].pw, !.rc = proc[p].rc,
                           !.uid = proc[p].usr.id] IN
       IF IntegrityError(users, proc[p].usr)
       THEN /\ users' = users
            /\ proc' = [proc EXCEPT ![p] = Idle]
            /\ ev' = [e EXCEPT !.status = reset_password_except("IntegrityError")]
       ELSE /\ users' = SaveUser(users, proc[p].usr)
            /\ proc' = [proc EXCEPT ![p].pc = "rp_save_code"]
            /\ ev' = NoEv
    /\ UNCHANGED <<belvo, nextId, codes, now, tokens, blacklist, outbox>>

\* lines 275-280: mark the code used and answer 200
reset_password_save_code(p) ==
    /\ At(p, "rp_save_code")
    /\ codes' = [MarkUsed(codes, proc[p].rc) EXCEPT ![proc[p].rc].consumed = TRUE]
    /\ proc' = [proc EXCEPT ![p] = Idle]
    /\ ev' = [Event(p, "reset_password", "rp_save_code", 200)
                EXCEPT !.email = proc[p].email, !.code = proc[p].code,
                       !.pw = proc[p].pw, !.rc = proc[p].rc,
                       !.uid = proc[p].usr.id, !.old = proc[p].old]
    /\ UNCHANGED <<belvo, users, nextId, now, tokens, blacklist, outbox>>

(* ------------------------- UserViewSet.create -------------------------- *)
\* UserSerializer.is_valid: required fields and the unique-email validator
serializer_is_valid(us, email, password) ==
    /\ email /= ""
    /\ password /= ""
    /\ UsersByEmail(us, email) = {}

\* UserSerializer.save: the password column of the row it inserts
serializer_password(raw) == make_password(raw)

\* the public projection returned by create and login
Projection(u) == [id |-> u.id, email |-> u.email,
                  first_name |-> u.first_name, last_name |-> u.last_name]

\* lines 79-80 and 93
create_validate(p) ==
    /\ IsIdle(p)
    /\ \E body \in Credentials, nm \in Names :
        LET email == body[1]
            password == body[2]
            e == [Event(p, "create", "cr_validate", 0)
                    EXCEPT !.email = email, !.pw = password] IN
        IF ~serializer_is_valid(users, email, password)
        THEN /\ proc' = proc
             /\ ev' = [e EXCEPT !.status = 400]
        ELSE /\ nextId + InFlight({"cr_insert"}) <= MaxUsers
             /\ proc' = [proc EXCEPT ![p] =
                    [Idle EXCEPT !.pc = "cr_insert", !.email = email,
                                 !.pw = password,
                                 !.usr = [NoUser EXCEPT !.email = email,
                                            !.is_active = TRUE,
                                            !.first_name = nm[1],
                                            !.last_name = nm[2]]]]
             /\ ev' = NoEv
    /\ UNCHANGED <<belvo, users, nextId, codes, now, tokens, blacklist, outbox>>

\* lines 81-82: serializer.save() inserts the row; a row with the same email
\* inserted meanwhile makes the INSERT raise IntegrityError, which create
\* does not catch (500)
create_insert(p) ==
    /\ At(p, "cr_insert")
    /\ LET u == [proc[p].usr EXCEPT !.id = nextId,
                    !.password = serializer_password(proc[p].pw)]
           e == [Event(p, "create", "cr_insert", 0)
                    EXCEPT !.email = proc[p].email, !.pw = proc[p].pw,
                           !.uid = nextId] IN
       IF IntegrityError(users, u)
       THEN /\ UNCHANGED <<belvo, users, nextId>>
            /\ proc' = [proc EXCEPT ![p] = Idle]
            /\ ev' = [e EXCEPT !.status = 500, !.uid = 0]
       ELSE /\ users' = users \cup {u}
            /\ nextId' = nextId + 1
            /\ proc' = [proc EXCEPT ![p].pc = "cr_save",
                                    ![p].usr = set_password(u, proc[p].pw)]
            /\ ev' = NoEv
    /\ UNCHANGED <<belvo, codes, now, tokens, blacklist, outbox>>

\* lines 83-92: user.save() and the 201 response
create_save(p) ==
    /\ At(p, "cr_save")
    /\ LET e == [Event(p, "create", "cr_save", 0)
                    EXCEPT !.email = proc[p].email, !.pw = proc[p].pw,
                           !.uid = proc[p].usr.id] IN
       IF IntegrityError(users, proc[p].usr)
       THEN /\ users' = users
            /\ ev' = [e EXCEPT !.status = 500]
       ELSE /\ users' = SaveUser(users, proc[p].usr)
            /\ ev' = [e EXCEPT !.status = 201,
                               !.body = Projection(proc[p].usr)]
    /\ proc' = [proc EXCEPT ![p] = Idle]
    /\ UNCHANGED <<belvo, nextId, codes, now, tokens, blacklist, outbox>>

(* ------------------------- authentication ------------------------------ *)
\* JWTAuthentication.authenticate + IsAuthenticated: the users a request
\* carrying the access token derived from refresh token t is served as
Authenticated(us, tks, t) ==
    IF t \in DOMAIN tks
    THEN {u \in UsersById(us, tks[t].user) : u.is_active}
    ELSE {}

(* ------------------------- UserViewSet.destroy ------------------------- *)
\* get_permissions (lines 27-32): destroy needs an authenticated caller
destroy_authenticate(p) ==
    /\ IsIdle(p)
    /\ \E t \in 0..Len(tokens), pk \in PkStrings :
        LET e == [Event(p, "destroy", "ds_auth", 0)
                    EXCEPT !.tok = t, !.pk = pk] IN
        IF Authenticated(users, tokens, t) = {}
        THEN /\ proc' = proc
             /\ ev' = [e EXCEPT !.status = 401]
        ELSE \E u \in Authenticated(users, tokens, t) :
             /\ proc' = [proc EXCEPT ![p] =
                    [Idle EXCEPT !.pc = "destroy", !.usr = u, !.pk = pk]]
             /\ ev' = NoEv
    /\ UNCHANGED <<belvo, users, nextId, codes, now, tokens, blacklist, outbox>>

\* variant: the caller is not compared with the target
is_own_account_any(u, pk) == TRUE

\* line 116: str(request.user.id) != pk
is_own_account(u, pk) == IdStr[u.id] = pk

\* variant: the codes issued for the email of the deleted user go with it
delete_codes_cascade(cs, u) == InvalidateUnused(cs, u.email)

\* user.delete() cascades along foreign keys only; PasswordResetCode has
\* none (it names the user by email), so no row of it is touched
delete_codes(cs, u) == cs

\* lines 115-127, one transaction
destroy(p) ==
    /\ At(p, "destroy")
    /\ LET e == [Event(p, "destroy", "destroy", 0)
                    EXCEPT !.uid = proc[p].usr.id, !.pk = proc[p].pk]
           target == {u \in users : IdStr[u.id] = proc[p].pk} IN
       IF ~is_own_account(proc[p].usr, proc[p].pk)
       THEN /\ users' = users
            /\ codes' = codes
            /\ ev' = [e EXCEPT !.status = 403]
       ELSE IF target = {}
       THEN /\ users' = users
            /\ codes' = codes
            /\ ev' = [e EXCEPT !.status = 404]
       ELSE /\ users' = users \ target
            /\ codes' = delete_codes(codes, proc[p].usr)
            /\ ev' = [e EXCEPT !.status = 204]
    /\ proc' = [proc EXCEPT ![p] = Idle]
    /\ UNCHANGED <<belvo, nextId, now, tokens, blacklist, outbox>>

(* --------------------- AuthenticationViewSet.login --------------------- *)
\* variant: the active flag is not consulted
is_active_ignored(u) == TRUE

\* line 100
is_active(u) == u.is_active

\* lines 86-116
login(p) ==
    /\ IsIdle(p)
    /\ \E body \in Credentials :
        LET email == body[1]
            password == body[2]
            e == [Event(p, "login", "login", 0)
                    EXCEPT !.email = email, !.pw = password]
            fail(st) == /\ tokens' = tokens
                        /\ ev' = [e EXCEPT !.status = st]
        IN
        IF email = "" \/ password = "" THEN fail(400)
        ELSE IF DoesNotExist(users, email) THEN fail(401)
        ELSE \E u \in UsersByEmail(users, email) :
            IF ~check_password(password, u.password) THEN fail(401)
            ELSE IF ~is_active(u) THEN fail(401)
            ELSE /\ Len(tokens) < MaxTokens
                 /\ tokens' = Append(tokens, [user |-> u.id])
                 /\ ev' = [e EXCEPT !.status = 200, !.uid = u.id,
                                    !.tok = Len(tokens) + 1,
                                    !.body = Projection(u)]
    /\ UNCHANGED <<belvo, users, nextId, codes, now, blacklist, outbox, proc>>

(* -------------------- AuthenticationViewSet.logout --------------------- *)
\* RefreshToken(refresh_token): raises TokenError for a string that is not
\* a refresh token and for a token that is on the denylist
RefreshTokenError(tks, bl, r) == r \notin DOMAIN tks \/ r \in bl

\* variant: the token is parsed and not put on the denylist
Blacklisted_dropped(bl, r) == bl

\* token.blacklist()
Blacklisted(bl, r) == bl \cup {r}

\* lines 159-175; refresh token 0 stands for a string that is not a refresh token
logout(p) ==
    /\ IsIdle(p)
    /\ \E t \in 0..Len(tokens), r \in 0..Len(tokens) :
        LET e == [Event(p, "logout", "logout", 0)
                    EXCEPT !.tok = r] IN
        IF Authenticated(users, tokens, t) = {}
        THEN /\ blacklist' = blacklist
             /\ ev' = [e EXCEPT !.status = 401]
        ELSE IF RefreshTokenError(tokens, blacklist, r)
        THEN \E u \in Authenticated(users, tokens, t) :
             /\ blacklist' = blacklist
             /\ ev' = [e EXCEPT !.status = 400, !.uid = u.id]
        ELSE \E u \in Authenticated(users, tokens, t) :
             /\ blacklist' = Blacklisted(blacklist, r)
             /\ ev' = [e EXCEPT !.status = 200, !.uid = u.id]
    /\ UNCHANGED <<belvo, users, nextId, codes, now, tokens, outbox, proc>>

\* TokenRefreshView of the token library: mint an access token from r
token_refresh(p) ==
    /\ IsIdle(p)
    /\ \E r \in 0..Len(tokens) :
        ev' = [Event(p, "token_refresh", "refresh",
                     IF RefreshTokenError(tokens, blacklist, r)
                     THEN 401 ELSE 200)
                 EXCEPT !.tok = r]
    /\ UNCHANGED <<belvo, users, nextId, codes, now, tokens, blacklist, outbox, proc>>

(* ------------------------ BelvoAPIViewSet ------------------------------ *)
\* The adapter serves requests that passed IsAuthenticated (line 21); it
\* keeps no state between requests, so one request at a time is modelled.
BelvoIsIdle == belvo.pc = "idle"

Answer(op, st, n) ==
    [BelvoIdle EXCEPT !.pc = "done", !.op = op, !.status = st, !.calls = n]

\* the except clauses at the boundary of a handler: the status returned for
\* an exception raised in its try block, 500 when no clause matches and the
\* exception leaves the handler
BoundaryStatus(op, exc) ==
    IF exc \in RequestException
    THEN IF op = "transaction_details" THEN 404 ELSE 400
    ELSE IF op = "create_test_links" THEN 400 ELSE 500

\* variant: any() instead of all()
all_present_any(q) == \E k \in DOMAIN q : q[k] \notin {None, ""}

\* all(params.values()): every parameter is present and non-empty
all_present(q) == \A k \in DOMAIN q : q[k] \notin {None, ""}

RECURSIVE sum(_)
sum(xs) == IF xs = <<>> THEN 0 ELSE Head(xs) + sum(Tail(xs))

amounts(ts) == [i \in DOMAIN ts |-> ts[i].amount]

\* variant: everything that is not an outflow counts as income
is_income_not_outflow(t) == t.type /= "OUTFLOW"

\* line 274
is_income(t) == t.type = "INFLOW"

\* line 275
is_expense(t) == t.type = "OUTFLOW"

\* lines 273-276
kpi(transactions) ==
    LET income == sum(amounts(SelectSeq(transactions, is_income)))
        expenses == sum(amounts(SelectSeq(transactions, is_expense)))
    IN  [income |-> income, expenses |-> expenses,
         balance |-> income - expenses]

\* lines 278-287: the fields kept of one transaction
formatted(t) == [id |-> t.id, amount |-> t.amount, type |-> t.type]

\* lines 71-107
institutions ==
    /\ BelvoIsIdle
    /\ \E o \in Outcomes :
        belvo' = Answer("institutions",
                        IF o = "ok" THEN 200
                        ELSE BoundaryStatus("institutions", o), 1)
    /\ UNCHANGED <<users, nextId, codes, now, tokens, blacklist, outbox,
                   proc, ev>>

\* lines 147-186
accounts ==
    /\ BelvoIsIdle
    /\ \E link_id \in ParamValues, o \in Outcomes :
        LET q == [NoQuery EXCEPT !["link_id"] = link_id] IN
        IF ~all_present([k \in {"link_id"} |-> link_id])
        THEN belvo' = [Answer("accounts", 400, 0) EXCEPT !.query = q]
        ELSE belvo' = [Answer("accounts",
                              IF o = "ok" THEN 200
                              ELSE BoundaryStatus("accounts", o), 1)
                         EXCEPT !.query = q]
    /\ UNCHANGED <<users, nextId, codes, now, tokens, blacklist, outbox,
                   proc, ev>>

\* lines 246-301
transactions ==
    /\ BelvoIsIdle
    /\ \E q \in [ParamNames -> ParamValues] :
        IF ~all_present(q)
        THEN belvo' = [Answer("transactions", 400, 0) EXCEPT !.query = q]
        ELSE \E o \in Outcomes :
            IF o /= "ok"
            THEN belvo' = [Answer("transactions",
                                  BoundaryStatus("transactions", o), 1)
                             EXCEPT !.query = q]
            ELSE \E data \in Pages :
                 belvo' = [Answer("transactions", 200, 1)
                             EXCEPT !.query = q, !.page = data,
                                    !.kpi = kpi(data),
                                    !.out = [i \in DOMAIN data |->
                                                formatted(data[i])]]
    /\ UNCHANGED <<users, nextId, codes, now, tokens, blacklist, outbox,
                   proc, ev>>

\* lines 352-402
transaction_details ==
    /\ BelvoIsIdle
    /\ \E o \in Outcomes :
        belvo' = Answer("transaction_details",
                        IF o = "ok" THEN 200
                        ELSE BoundaryStatus("transaction_details", o), 1)
    /\ UNCHANGED <<users, nextId, codes, now, tokens, blacklist, outbox,
                   proc, ev>>

\* lines 408-415: created_links = [], enter the loop
create_test_links_begin ==
    /\ BelvoIsIdle
    /\ belvo' = [BelvoIdle EXCEPT !.pc = "ctl_loop",
                                  !.op = "create_test_links",
                                  !.items = TEST_CREDENTIALS]
    /\ UNCHANGED <<users, nextId, codes, now, tokens, blacklist, outbox,
                   proc, ev>>

\* lines 416-453: one credential entry; o1 answers the POST links/, o2 the
\* POST accounts/ (whose JSON is not read).  RequestException is caught
\* inside the loop; a link without an id raises KeyError at line 438, which
\* only the clause at line 460 catches
create_test_links_item ==
    /\ belvo.pc = "ctl_loop"
    /\ belvo.seen < Len(belvo.items)
    /\ \E o1 \in Outcomes, o2 \in {"ok"} \cup RequestException :
        LET item == belvo.items[belvo.seen + 1]
            next == [belvo EXCEPT !.seen = @ + 1] IN
        IF o1 \in RequestException
        THEN belvo' = [next EXCEPT !.calls = @ + 1]
        ELSE IF o1 = "KeyError"
        THEN belvo' = [next EXCEPT !.calls = @ + 1, !.pc = "done",
                          !.status = BoundaryStatus("create_test_links", o1)]
        ELSE IF o2 \in RequestException
        THEN belvo' = [next EXCEPT !.calls = @ + 2]
        ELSE belvo' = [next EXCEPT !.calls = @ + 2,
                                   !.done = Append(@, item.id)]
    /\ UNCHANGED <<users, nextId, codes, now, tokens, blacklist, outbox,
                   proc, ev>>

\* lines 455-458
create_test_links_end ==
    /\ belvo.pc = "ctl_loop"
    /\ belvo.seen = Len(belvo.items)
    /\ belvo' = [belvo EXCEPT !.pc = "done", !.status = 201,
                              !.total = Len(belvo.done)]
    /\ UNCHANGED <<users, nextId, codes, now, tokens, blacklist, outbox,
                   proc, ev>>

\* lines 467-484: GET links/
all_accounts_begin ==
    /\ BelvoIsIdle
    /\ \E o \in Outcomes :
        IF o /= "ok"
        THEN belvo' = Answer("all_accounts",
                             BoundaryStatus("all_accounts", o), 1)
        ELSE \E links \in LinkLists :
             belvo' = [BelvoIdle EXCEPT !.pc = "aa_loop",
                                        !.op = "all_accounts",
                                        !.calls = 1, !.items = links]
    /\ UNCHANGED <<users, nextId, codes, now, tokens, blacklist, outbox,
                   proc, ev>>

\* lines 486-527: one link; o1 answers the POST accounts/ (its status is not
\* checked, only a failed connection raises), o2 the GET accounts/ with n
\* accounts.  link['status'] is read outside the inner try, and the handler
\* has no clause for anything but RequestException
all_accounts_item ==
    /\ belvo.pc = "aa_loop"
    /\ belvo.seen < Len(belvo.items)
    /\ \E o1 \in {"ok", "ConnectionError"}, o2 \in Outcomes, n \in 0..MaxAccounts :
        LET link == belvo.items[belvo.seen + 1]
            next == [belvo EXCEPT !.seen = @ + 1] IN
        IF link.status = ""
        THEN belvo' = [next EXCEPT !.pc = "done",
                          !.status = BoundaryStatus("all_accounts", "KeyError")]
        ELSE IF link.status /= "valid"
        THEN belvo' = next
        ELSE IF o1 \in RequestException
        THEN belvo' = [next EXCEPT !.calls = @ + 1]
        ELSE IF o2 \in RequestException
        THEN belvo' = [next EXCEPT !.calls = @ + 2]
        ELSE IF o2 = "KeyError"
        THEN belvo' = [next EXCEPT !.calls = @ + 2, !.pc = "done",
                          !.status = BoundaryStatus("all_accounts", o2)]
        ELSE IF n = 0
        THEN belvo' = [next EXCEPT !.calls = @ + 2]
        ELSE belvo' = [next EXCEPT !.calls = @ + 2, !.total = @ + n,
                                   !.done = Append(@, link.id)]
    /\ UNCHANGED <<users, nextId, codes, now, tokens, blacklist, outbox,
                   proc, ev>>

\* lines 529-532
all_accounts_end ==
    /\ belvo.pc = "aa_loop"
    /\ belvo.seen = Len(belvo.items)
    /\ belvo' = [belvo EXCEPT !.pc = "done", !.status = 200]
    /\ UNCHANGED <<users, nextId, codes, now, tokens, blacklist, outbox,
                   proc, ev>>

\* the response goes back to the client
belvo_respond ==
    /\ belvo.pc = "done"
    /\ belvo' = BelvoIdle
    /\ UNCHANGED <<users, nextId, codes, now, tokens, blacklist, outbox,
                   proc, ev>>

(* --------------------------- specifications --------------------------- *)
\* The password-reset ledger: two request slots run request_code and
\* reset_password statement by statement against the deployed accounts,
\* while the clock advances.
LedgerNext ==
    \/ Tick
    \/ respond
    \/ \E p \in Procs : request_code_get_user(p)
    \/ \E p \in Procs : request_code_invalidate(p)
    \/ \E p \in Procs : request_code_create(p)
    \/ \E p \in Procs : request_code_send_mail(p)
    \/ \E p \in Procs : reset_password_query(p)
    \/ \E p \in Procs : reset_password_get_user(p)
    \/ \E p \in Procs : reset_password_save_user(p)
    \/ \E p \in Procs : reset_password_save_code(p)

SpecLedger == Init /\ [][LedgerNext]_vars

\* The accounts: two request slots register, log in and out, refresh, delete
\* accounts and redeem a reset code that was mailed to the deployed account
\* before the run starts.
InitAccounts ==
    /\ users \in SeedUsers
    /\ nextId = IF users = {} THEN 1 ELSE 2
    /\ codes \in IF users = {} THEN {<<>>}
                 ELSE {<<>>, <<NewCode("a@x.co", "AAAA0001", 0)>>}
    /\ now = 0
    /\ tokens = <<>>
    /\ blacklist = {}
    /\ outbox = IF codes = <<>> THEN {} ELSE {[to |-> "a@x.co", rc |-> 1]}
    /\ proc = [p \in Procs |-> Idle]
    /\ ev = NoEv
    /\ belvo = BelvoIdle

AccountsNext ==
    \/ respond
    \/ \E p \in Procs : create_validate(p)
    \/ \E p \in Procs : create_insert(p)
    \/ \E p \in Procs : create_save(p)
    \/ \E p \in Procs : destroy_authenticate(p)
    \/ \E p \in Procs : destroy(p)
    \/ \E p \in Procs : login(p)
    \/ \E p \in Procs : logout(p)
    \/ \E p \in Procs : token_refresh(p)
    \/ \E p \in Procs : reset_password_query(p)
    \/ \E p \in Procs : reset_password_get_user(p)
    \/ \E p \in Procs : reset_password_save_user(p)
    \/ \E p \in Procs : reset_password_save_code(p)

SpecAccounts == InitAccounts /\ [][AccountsNext]_vars

\* The banking adapter: one authenticated client calls the six operations,
\* and every outbound call comes back with any outcome.
InitBelvo ==
    /\ users = {}
    /\ nextId = 1
    /\ codes = <<>>
    /\ now = 0
    /\ tokens = <<>>
    /\ blacklist = {}
    /\ outbox = {}
    /\ proc = [p \in Procs |-> Idle]
    /\ ev = NoEv
    /\ belvo = BelvoIdle

BelvoNext ==
    \/ institutions
    \/ accounts
    \/ transactions
    \/ transaction_details
    \/ create_test_links_begin
    \/ create_test_links_item
    \/ create_test_links_end
    \/ all_accounts_begin
    \/ all_accounts_item
    \/ all_accounts_end
    \/ belvo_respond

SpecBelvo == InitBelvo /\ [][BelvoNext]_vars

(* ======================= properties of the ledger ====================== *)
\* slot p took a reset_password request and its code check passed
Accepted(p) == proc[p].pc = "idle" /\ proc'[p].pc = "rp_get_user"

\* a reset_password request was answered at its validation / code check
Rejected == ev = NoEv /\ ev'.stmt = "rp_query"

\* the body of the answered request has all four fields and equal passwords
WellFormed(e) ==
    /\ "" \notin {e.email, e.code, e.pw, e.pw2}
    /\ e.pw = e.pw2

\* some reset_password succeeded with a record carrying (e, k)
ConsumedPair(e, k) ==
    \E r \in DOMAIN codes :
        codes[r].consumed /\ codes[r].email = e /\ codes[r].code = k

\* some record has that email and code, is unused, and now < created + 10 min
ValidCodeExists(e, k) ==
    \E r \in DOMAIN codes :
        /\ codes[r].email = e
        /\ codes[r].code = k
        /\ codes[r].is_used = FALSE
        /\ now < codes[r].created_at + CodeTTLMinutes

\* request_code answered 200 for record r: its mail was handed over
Sent(r) == [to |-> codes[r].email, rc |-> r] \in outbox

\* C1, as stated: once reset_password has succeeded with the code of a
\* record, every later reset_password call carrying the same email and code
\* fails with 400 (its code check never passes).
C1_EveryLaterCallFails ==
    [][\A p \in Procs :
        Accepted(p) => ~ConsumedPair(proc'[p].email, proc'[p].code)]_vars

\* C1, amended: a record that a successful reset_password consumed stays
\* used and is never accepted again; a later call with the same email and
\* code passes the code check only on another record with that email and
\* code that is unused and unexpired, and a rejected call answers 400 and
\* leaves users and codes as they were.
C1_SingleUse ==
    [][/\ \A r \in DOMAIN codes :
            codes[r].consumed => codes'[r].consumed /\ codes'[r].is_used
       /\ \A p \in Procs :
            Accepted(p) /\ ConsumedPair(proc'[p].email, proc'[p].code) =>
                LET r == proc'[p].rc IN
                /\ r \in DOMAIN codes
                /\ ~codes[r].consumed
                /\ codes[r].email = proc'[p].email
                /\ codes[r].code = proc'[p].code
                /\ ~codes[r].is_used
                /\ now < codes[r].expires_at
       /\ Rejected =>
            ev'.status = 400 /\ users' = users /\ codes' = codes]_vars

\* a call with the email and code of a consumed, still unexpired record was
\* rejected, and no code was issued for that email after the consumed one
C1_Witness ==
    /\ ev.stmt = "rp_query"
    /\ ev.status = 400
    /\ WellFormed(ev)
    /\ \E r \in DOMAIN codes :
        /\ codes[r].consumed
        /\ codes[r].email = ev.email
        /\ codes[r].code = ev.code
        /\ now < codes[r].expires_at
        /\ \A q \in DOMAIN codes : q > r => codes[q].email /= ev.email

\* C2: a well-formed reset_password call for an existing user passes the
\* code check if and only if some record has its email and code, is unused
\* and now < created_at + 10 minutes (so it is rejected with 400 at
\* now = expires_at and later); once past the check, the call for an
\* existing user answers 200.
C2_ValidityCondition ==
    [][/\ \A p \in Procs :
            Accepted(p) => ValidCodeExists(proc'[p].email, proc'[p].code)
       /\ (Rejected /\ WellFormed(ev') /\ UsersByEmail(users, ev'.email) /= {})
            => ev'.status = 400 /\ ~ValidCodeExists(ev'.email, ev'.code)
       /\ (/\ ev = NoEv
           /\ ev'.op = "reset_password"
           /\ ev'.stmt /= "rp_query"
           /\ UsersByEmail(users, ev'.email) /= {})
            => ev'.status = 200]_vars

\* a well-formed call for an existing user was rejected exactly at
\* now = expires_at of the unused record it names
C2_Witness ==
    /\ ev.stmt = "rp_query"
    /\ ev.status = 400
    /\ WellFormed(ev)
    /\ UsersByEmail(users, ev.email) /= {}
    /\ \E r \in DOMAIN codes :
        /\ codes[r].email = ev.email
        /\ codes[r].code = ev.code
        /\ ~codes[r].is_used
        /\ codes[r].expires_at = codes[r].created_at + CodeTTLMinutes
        /\ now = codes[r].expires_at

\* C3: when request_code succeeded twice for one email, producing code1
\* and then a different code2, no reset_password call made after the second
\* issuance passes the code check with (email, code1).
C3_ReissueInvalidates ==
    [][\A p \in Procs :
        Accepted(p) =>
            ~\E r1, r2 \in DOMAIN codes :
                /\ r1 < r2
                /\ Sent(r1) /\ Sent(r2)
                /\ codes[r1].email = proc'[p].email
                /\ codes[r2].email = proc'[p].email
                /\ codes[r1].code = proc'[p].code
                /\ codes[r2].code /= proc'[p].code
                /\ proc'[p].rc = r1]_vars

\* C4: for every email at most one record has is_used = false.
C4_AtMostOneUnused ==
    \A e \in Emails :
        Cardinality({r \in DOMAIN codes :
                        codes[r].email = e /\ ~codes[r].is_used}) <= 1

\* C5: request_code for an email that matches no user answers 404, creates
\* no record, marks no record used and sends no mail: the handler never
\* goes on to its update and insert.
C5_UnknownEmail ==
    [][/\ (/\ ev = NoEv
           /\ ev'.stmt = "rc_get_user"
           /\ ev'.email /= ""
           /\ UsersByEmail(users, ev'.email) = {})
            => /\ ev'.status = 404
               /\ codes' = codes
               /\ outbox' = outbox
               /\ proc' = proc
       /\ \A p \in Procs :
            (proc[p].pc = "idle" /\ proc'[p].pc = "rc_invalidate")
                => UsersByEmail(users, proc'[p].email) /= {}]_vars

\* request_code was answered 404 while an unused code was on record
C5_Witness ==
    /\ ev.stmt = "rc_get_user"
    /\ ev.status = 404
    /\ UsersByEmail(users, ev.email) = {}
    /\ \E r \in DOMAIN codes : ~codes[r].is_used

\* C6: reset_password with new_password /= confirm_password answers 400
\* whatever the code and the user, and changes neither users nor codes:
\* a call never gets past validation with differing passwords.
C6_PasswordMismatch ==
    [][/\ \A p \in Procs :
            (proc[p].pc = "idle" /\ proc'[p].pc = "rp_get_user")
                => proc'[p].pw = proc'[p].pw2
       /\ (Rejected /\ ev'.pw /= ev'.pw2)
            => /\ ev'.status = 400
               /\ users' = users
               /\ codes' = codes
               /\ proc' = proc]_vars

\* a call with differing passwords was rejected although the code it
\* carried was valid and its user exists
C6_Witness ==
    /\ ev.stmt = "rp_query"
    /\ ev.status = 400
    /\ "" \notin {ev.email, ev.code, ev.pw, ev.pw2}
    /\ ev.pw /= ev.pw2
    /\ UsersByEmail(users, ev.email) /= {}
    /\ ValidCodeExists(ev.email, ev.code)

(* ====================== properties of the accounts ===================== *)
\* C7: destroy by a caller whose id differs from the target answers 403 and
\* changes nothing, whether or not the target exists; a user row disappears
\* only in a destroy request made by that user and answered 204.
C7_ForeignDeleteForbidden ==
    [][/\ (ev = NoEv /\ ev'.stmt = "destroy" /\ IdStr[ev'.uid] /= ev'.pk)
            => /\ ev'.status = 403
               /\ users' = users
               /\ codes' = codes
               /\ tokens' = tokens
               /\ blacklist' = blacklist
       /\ \A u \in users :
            (\A x \in users' : x.id /= u.id)
                => /\ ev'.stmt = "destroy"
                   /\ ev'.status = 204
                   /\ ev'.uid = u.id
                   /\ ev'.pk = IdStr[u.id]]_vars

\* a caller was refused the deletion of another, existing account
C7_Witness ==
    /\ ev.stmt = "destroy"
    /\ ev.status = 403
    /\ \E u \in users : IdStr[u.id] = ev.pk /\ u.id /= ev.uid

\* C8: a refresh token on the denylist stays there; a logout answered 200
\* puts exactly its refresh token on the denylist; a later logout with that
\* token by an authenticated caller answers 400, and no access token is
\* minted from it, while any other issued token still refreshes.
C8_LogoutIsPermanent ==
    [][/\ blacklist \subseteq blacklist'
       /\ (ev = NoEv /\ ev'.stmt = "logout" /\ ev'.status = 200)
            => /\ ev'.tok \in DOMAIN tokens
               /\ ev'.tok \notin blacklist
               /\ blacklist' = blacklist \cup {ev'.tok}
       /\ (ev = NoEv /\ ev'.stmt = "logout" /\ ev'.tok \in blacklist)
            => ev'.status = (IF ev'.uid = 0 THEN 401 ELSE 400)
       /\ (ev = NoEv /\ ev'.stmt = "refresh")
            => /\ blacklist' = blacklist
               /\ ev'.status = 200
                    <=> (ev'.tok \in DOMAIN tokens /\ ev'.tok \notin blacklist)]_vars

\* a second logout with a denylisted token was answered 400 while another
\* issued token is still off the denylist
C8_Witness ==
    /\ ev.stmt = "logout"
    /\ ev.status = 400
    /\ ev.uid /= 0
    /\ ev.tok \in blacklist
    /\ \E t \in DOMAIN tokens : t \notin blacklist

\* login(e, pw) would be answered 200 in the current state (lines 90-101)
LoginAccepts(e, pw) ==
    \E u \in UsersByEmail(users, e) :
        check_password(pw, u.password) /\ is_active(u)

\* C9, as stated in its last sentence: after a successful reset_password
\* the new password logs in and the old one no longer does.
C9_ResetThenLogin ==
    (ev.stmt = "rp_save_code" /\ ev.status = 200)
        => /\ LoginAccepts(ev.email, ev.pw)
           /\ ~LoginAccepts(ev.email, ev.old[2])

\* C9, amended: a well-formed login answers 200, with a new token pair and
\* the projection of the user, exactly when a user has that email, the
\* stored hash is the hash of the supplied password and the user is active;
\* otherwise it answers 401 and issues no token.  reset_password stores the
\* hash of the new password, so from then on, until another request writes
\* that user, only the new password verifies.
C9_LoginIff ==
    [][/\ (ev = NoEv /\ ev'.stmt = "login" /\ ev'.email /= "" /\ ev'.pw /= "")
            => LET ok == {u \in users :
                            /\ u.email = ev'.email
                            /\ u.password = <<"pbkdf2_sha256", ev'.pw>>
                            /\ u.is_active}
               IN  IF ok /= {}
                   THEN /\ ev'.status = 200
                        /\ \E u \in ok :
                            /\ ev'.body = [id |-> u.id, email |-> u.email,
                                           first_name |-> u.first_name,
                                           last_name |-> u.last_name]
                            /\ tokens' = Append(tokens, [user |-> u.id])
                        /\ ev'.tok = Len(tokens')
                   ELSE /\ ev'.status = 401
                        /\ tokens' = tokens
       /\ \A p \in Procs :
            (proc[p].pc = "rp_save_user" /\ proc'[p].pc = "rp_save_code")
                => \E u \in users' :
                    /\ u.email = proc[p].email
                    /\ u.password = <<"pbkdf2_sha256", proc[p].pw>>]_vars

\* a login with the password set by an earlier reset_password succeeded
C9_Witness ==
    /\ ev.stmt = "login"
    /\ ev.status = 200
    /\ ev.pw = "pw2"
    /\ \E r \in DOMAIN codes : codes[r].consumed /\ codes[r].email = ev.email
    /\ \E u \in users : u.id = 1 /\ u.email = ev.email

\* C10: no two user rows share an email; a create request for the email of
\* an existing user answers 400, a create not answered 201 adds no row, and
\* no step changes the email of a row.
C10_UniqueEmail ==
    [][/\ \A u, v \in users : u.email = v.email => u = v
       /\ \A u, v \in users' : u.email = v.email => u = v
       /\ (ev = NoEv /\ ev'.stmt = "cr_validate"
                /\ UsersByEmail(users, ev'.email) /= {})
            => ev'.status = 400 /\ users' = users
       /\ \A p \in Procs :
            (proc[p].pc = "idle" /\ proc'[p].pc = "cr_insert")
                => UsersByEmail(users, proc'[p].email) = {}
       /\ (ev = NoEv /\ ev'.op = "create" /\ ev'.status /= 201)
            => users' = users
       /\ \A u \in users : \A x \in users' :
            x.id = u.id => x.email = u.email]_vars

\* a create request for the email of an existing user was answered 400
C10_Witness ==
    /\ ev.stmt = "cr_validate"
    /\ ev.status = 400
    /\ ev.pw /= ""
    /\ UsersByEmail(users, ev.email) /= {}

RECURSIVE TotalOver(_, _, _)
TotalOver(page, ty, A) ==
    IF A = {} THEN 0
    ELSE LET a == CHOOSE x \in A : TRUE IN
         a * Cardinality({i \in DOMAIN page :
                            page[i].type = ty /\ page[i].amount = a})
         + TotalOver(page, ty, A \ {a})

\* C12: transactions with one of link_id, account_id, date_from, date_to
\* absent or empty answers 400 without any outbound call, and so does
\* accounts with link_id absent or empty.
C12_ValidationFirst ==
    /\ (/\ belvo.pc = "done"
        /\ belvo.op = "transactions"
        /\ \E k \in ParamNames : belvo.query[k] \in {None, ""})
        => belvo.status = 400 /\ belvo.calls = 0
    /\ (/\ belvo.pc = "done"
        /\ belvo.op = "accounts"
        /\ belvo.query["link_id"] \in {None, ""})
        => belvo.status = 400 /\ belvo.calls = 0

\* transactions was answered 400 with exactly one parameter absent
C12_Witness ==
    /\ belvo.pc = "done"
    /\ belvo.op = "transactions"
    /\ belvo.status = 400
    /\ belvo.calls = 0
    /\ belvo.query["date_to"] = None
    /\ \A k \in ParamNames \ {"date_to"} : belvo.query[k] = "v"

\* C13: a transactions response has income = the sum of the INFLOW amounts
\* of the upstream page, expenses = the sum of its OUTFLOW amounts and
\* balance = income - expenses; other types count nowhere, an empty page
\* gives 0/0/0, and the returned list has the page's length and order.
C13_Kpi ==
    (belvo.pc = "done" /\ belvo.op = "transactions" /\ belvo.status = 200)
        => /\ belvo.kpi.income = TotalOver(belvo.page, "INFLOW", Amounts)
           /\ belvo.kpi.expenses = TotalOver(belvo.page, "OUTFLOW", Amounts)
           /\ belvo.kpi.balance = belvo.kpi.income - belvo.kpi.expenses
           /\ (belvo.page = <<>> =>
                belvo.kpi = [income |-> 0, expenses |-> 0, balance |-> 0])
           /\ Len(belvo.out) = Len(belvo.page)
           /\ \A i \in DOMAIN belvo.page :
                /\ belvo.out[i].id = belvo.page[i].id
                /\ belvo.out[i].amount = belvo.page[i].amount
                /\ belvo.out[i].type = belvo.page[i].type

\* the page 100 INFLOW, 30 OUTFLOW, 20 OUTFLOW was answered with 100/50/50
C13_Witness ==
    /\ belvo.pc = "done"
    /\ belvo.op = "transactions"
    /\ belvo.status = 200
    /\ Len(belvo.page) = 3
    /\ belvo.page[1].amount = 100 /\ belvo.page[1].type = "INFLOW"
    /\ belvo.page[2].amount = 30 /\ belvo.page[2].type = "OUTFLOW"
    /\ belvo.page[3].amount = 20 /\ belvo.page[3].type = "OUTFLOW"
    /\ belvo.kpi = [income |-> 100, expenses |-> 50, balance |-> 50]

\* C14: once create_test_links or all_accounts has its list of items, no
\* failure on one item aborts the batch: the response is a success and every
\* item was processed.
C14_BatchTolerant ==
    (/\ belvo.pc = "done"
     /\ belvo.op \in {"create_test_links", "all_accounts"}
     /\ belvo.items /= <<>>)
        => /\ belvo.status \in {200, 201}
           /\ belvo.seen = Len(belvo.items)

\* C15: no exception leaves a handler: every response is one the handler
\* built, and an unexpected exception is answered 400.
C15_NothingEscapes ==
    belvo.pc = "done" => belvo.status \in {200, 201, 400, 404}

(* ================== further properties of the ledger =================== *)
\* the mail of the request_code call just answered was not handed over
SendFailed ==
    /\ ev.stmt = "rc_send"
    /\ [to |-> ev.email, rc |-> ev.rc] \notin outbox

\* C16, as stated: a failed send is not caught and leaves request_code as a
\* server error.
C16_SendFailurePropagates == SendFailed => ev.status = 500

\* C16, amended: a failed send is caught by the except clause of
\* request_code and answered with a structured 400; a send that went through
\* is answered 200.
C16_SendFailureCaught ==
    /\ SendFailed => ev.status = 400
    /\ (ev.stmt = "rc_send" /\ ~SendFailed) => ev.status = 200

\* request_code for an existing user was answered 400 after its send failed
C16_Witness ==
    /\ SendFailed
    /\ ev.status = 400
    /\ UsersByEmail(users, ev.email) /= {}
    /\ ev.rc \in DOMAIN codes
    /\ codes[ev.rc].email = ev.email

\* C17: a record is redeemed at most once under every interleaving: when a
\* reset_password call succeeds, no other call has succeeded with the same
\* record, so of two concurrent calls with the same email and code at most
\* one answers 200.
C17_AtMostOneSucceeds ==
    [][\A p \in Procs :
        (proc[p].pc = "rp_save_code" /\ proc'[p].pc = "idle")
            => ~codes[proc[p].rc].consumed]_vars

(* ================= further properties of the accounts ================== *)
\* C18: a reset_password call that passed the code check and finds no user
\* with its email (the account was deleted after the code was issued)
\* answers 404, changes no user and leaves every code record, its own
\* included, as it was.
C18_DeletedUserNotFound ==
    [][/\ \A p \in Procs :
            (/\ proc[p].pc = "rp_get_user"
             /\ proc'[p] /= proc[p]
             /\ UsersByEmail(users, proc[p].email) = {})
                => /\ ev'.stmt = "rp_get_user"
                   /\ ev'.status = 404
                   /\ ev'.p = p
                   /\ proc'[p].pc = "idle"
                   /\ users' = users
                   /\ codes' = codes
       /\ (ev = NoEv /\ ev'.stmt = "rp_get_user")
            => /\ ev'.status = 404
               /\ UsersByEmail(users, ev'.email) = {}
               /\ users' = users
               /\ codes' = codes]_vars

\* the deployed account was deleted, and a call with its unused, unexpired
\* code was answered 404 with the code still unused
C18_Witness ==
    /\ ev.stmt = "rp_get_user"
    /\ ev.status = 404
    /\ nextId > 1
    /\ UsersByEmail(users, ev.email) = {}
    /\ ev.rc \in DOMAIN codes
    /\ codes[ev.rc].email = ev.email
    /\ codes[ev.rc].code = ev.code
    /\ ~codes[ev.rc].is_used
    /\ now < codes[ev.rc].expires_at

\* C19: the password of a row is written only by the create request that
\* registers it, with the password of that request, and by a reset_password
\* call holding a record with the row's email and the call's code, which was
\* unused and unexpired when the call presented it; no other step writes a
\* password.
C19_ResetNeedsOwnCode ==
    [][/\ \A u \in users' :
            LET before == {x \in users : x.id = u.id} IN
            (before = {} \/ \E x \in before : x.password /= u.password)
                => \/ \E p \in Procs :
                        /\ proc[p].pc \in {"cr_insert", "cr_save"}
                        /\ proc'[p].pc /= proc[p].pc
                        /\ u.email = proc[p].email
                        /\ u.password = <<"pbkdf2_sha256", proc[p].pw>>
                   \/ \E p \in Procs :
                        /\ proc[p].pc = "rp_save_user"
                        /\ proc'[p].pc = "rp_save_code"
                        /\ u.email = proc[p].email
                        /\ u.password = <<"pbkdf2_sha256", proc[p].pw>>
                        /\ codes[proc[p].rc].email = u.email
                        /\ codes[proc[p].rc].code = proc[p].code
       /\ \A p \in Procs :
            Accepted(p)
                => LET r == proc'[p].rc IN
                   /\ r \in DOMAIN codes
                   /\ codes[r].email = proc'[p].email
                   /\ codes[r].code = proc'[p].code
                   /\ ~codes[r].is_used
                   /\ now < codes[r].expires_at]_vars

\* a reset_password call changed the password of one user while a user with
\* another email is registered
C19_Witness ==
    /\ ev.stmt = "rp_save_code"
    /\ ev.status = 200
    /\ ev.old /= <<"pbkdf2_sha256", ev.pw>>
    /\ \E u \in users :
        /\ u.id = ev.uid
        /\ u.email = ev.email
        /\ u.password = <<"pbkdf2_sha256", ev.pw>>
    /\ \E v \in users : v.email /= ev.email

\* C20: deleting an account touches no code record; a well-formed
\* reset_password call naming an unused, unexpired record is accepted
\* whoever holds the email now, and writes the new password to the user
\* that holds the email when the call looks it up.
C20_CodeSurvivesDestroy ==
    [][/\ (\E u \in users : \A x \in users' : x.id /= u.id) => codes' = codes
       /\ (ev = NoEv /\ ev'.op = "destroy") => codes' = codes
       /\ (Rejected /\ WellFormed(ev'))
            => ~ValidCodeExists(ev'.email, ev'.code)
       /\ \A p \in Procs :
            (proc[p].pc = "rp_get_user" /\ proc'[p].pc = "rp_save_user")
                => \E u \in users :
                    /\ u.email = proc[p].email
                    /\ proc'[p].usr.id = u.id
                    /\ proc'[p].usr.email = u.email
       /\ \A p \in Procs :
            (proc[p].pc = "rp_save_user" /\ proc'[p].pc = "rp_save_code")
                => \E u \in users' :
                    /\ u.id = proc[p].usr.id
                    /\ u.email = proc[p].email
                    /\ u.password = <<"pbkdf2_sha256", proc[p].pw>>]_vars

\* the code mailed to the deployed account was redeemed after that account
\* was deleted and the email registered again: it reset the new account
C20_Witness ==
    /\ ev.stmt = "rp_save_code"
    /\ ev.status = 200
    /\ ev.uid = 2
    /\ ev.rc = 1
    /\ codes[1].created_at = 0
    /\ codes[1].email = ev.email
    /\ \A u \in users : u.id /= 1
    /\ \E u \in users :
        /\ u.id = 2
        /\ u.email = ev.email
        /\ u.password = <<"pbkdf2_sha256", ev.pw>>

\* C21: request_code is not undone when its mail fails.  Its update marks
\* every unused record of the email used, its insert adds an unused record,
\* and the failed send answers an error while leaving users and codes as
\* they are.  No record is ever removed, a used record stays used, and an
\* unused one stays unused until a request_code update for its email or the
\* reset_password call that redeems it; while it is unused and unexpired a
\* well-formed reset_password call naming it is not rejected, delivered or not.
C21_NoRollback ==
    [][/\ \A p \in Procs :
            (proc[p].pc = "rc_invalidate" /\ proc'[p].pc = "rc_create")
                => \A r \in DOMAIN codes :
                    codes[r].email = proc[p].email => codes'[r].is_used
       /\ \A p \in Procs :
            (proc[p].pc = "rc_create" /\ proc'[p].pc = "rc_send")
                => /\ Len(codes') = Len(codes) + 1
                   /\ proc'[p].rc = Len(codes')
                   /\ codes'[Len(codes')].email = proc[p].email
                   /\ ~codes'[Len(codes')].is_used
                   /\ codes'[Len(codes')].expires_at = now + CodeTTLMinutes
       /\ (ev = NoEv /\ ev'.stmt = "rc_send")
            => /\ codes' = codes
               /\ users' = users
               /\ ev'.rc \in DOMAIN codes
               /\ ([to |-> ev'.email, rc |-> ev'.rc] \notin outbox'
                    => ev'.status = 400)
       /\ Len(codes') >= Len(codes)
       /\ \A r \in DOMAIN codes :
            /\ codes'[r].email = codes[r].email
            /\ codes'[r].code = codes[r].code
            /\ codes'[r].expires_at = codes[r].expires_at
            /\ codes[r].is_used => codes'[r].is_used
            /\ (~codes[r].is_used /\ codes'[r].is_used)
                => \E p \in Procs :
                    \/ /\ proc[p].pc = "rc_invalidate"
                       /\ proc'[p].pc = "rc_create"
                       /\ proc[p].email = codes[r].email
                    \/ /\ proc[p].pc = "rp_save_code"
                       /\ proc'[p].pc = "idle"
                       /\ proc[p].rc = r
       /\ (Rejected /\ WellFormed(ev'))
            => ~\E r \in DOMAIN codes :
                /\ codes[r].email = ev'.email
                /\ codes[r].code = ev'.code
                /\ ~codes[r].is_used
                /\ now < codes[r].expires_at]_vars

\* a second request_code for the email failed to send its mail, no request
\* is in flight, and the undelivered record was redeemed by reset_password
\* while the record issued first had been marked used by the reissue
C21_Witness ==
    /\ ev.stmt = "rp_save_code"
    /\ ev.status = 200
    /\ ev.rc = 2
    /\ [to |-> ev.email, rc |-> 2] \notin outbox
    /\ \A p \in Procs : proc[p].pc = "idle"
    /\ codes[1].email = ev.email
    /\ codes[1].is_used
    /\ ~codes[1].consumed
    /\ codes[2].consumed

====
